---- MODULE Spec2Model ----
(***************************************************************************)
(* A model of SMTPChannel (src/src/index.js): one channel object, the      *)
(* sockets it opens, the commands it arms with _resolveCommand, and the    *)
(* promises it hands to its caller.                                        *)
(*                                                                         *)
(* Strings are sequences of character codes.  A socket is a record of the  *)
(* listener lists the channel manipulates (close, error) plus the number   *)
(* of times the channel's data/end/timeout handlers are wired on it.  The  *)
(* server puts reply bytes on a socket's wire; the socket delivers them    *)
(* in chunks of any size.  The reply to operation i carries the digit i    *)
(* as the third character of its code, so that a line shows which command  *)
(* it answers.                                                             *)
(*                                                                         *)
(* The caller awaits each promise it was given before it calls again; a    *)
(* promise called with a deadline may time out first (promised-timeout),   *)
(* after which the caller goes on while the operation is still in flight.  *)
(* An exception thrown out of an event listener is uncaught: the process   *)
(* stops (crashed).                                                        *)
(***************************************************************************)
EXTENDS Integers, Sequences, FiniteSets, TLC

\* Bounds of the model.
MaxOps == 3
MaxSockets == 2
MaxLines == 2
Cut == 4
MaxTimeouts == 1
MaxFailures == 1
MaxLineLen == 4
MaxPayload == 3

VARIABLES
    config,         \* this._config: [secure]; an idle timeout is configured
    socket,         \* this._socket: 0 is null, else the index of a socket in sock
    isSecure,       \* this._isSecure
    receiveBuffer,  \* this._receiveBuffer: the partial line it retains
    lineL,          \* the 'line' listeners of this._receiveBuffer, in order of installation
    sock,           \* every socket created so far
    ops,            \* every operation called so far (connect, write, close, negotiateTLS, auto QUIT)
    crashed,        \* an exception escaped an event listener
    recvd,          \* history: the bytes the sockets delivered in 'data' events, in order
    noCloseSince,   \* history: a connect opened a socket and no close() call or close event followed
    lineArg,        \* a line given to parseReplyCode and isLastReply by a direct call
    reply,          \* what those calls returned
    data,           \* the payload of a write: its bytes, the chunks its stream has still to deliver
    sent,           \* history: the texts of the 'send' events, in order
    sendBuffer,     \* this._sendBuffer: the partial line it retains
    commands,       \* history: the lines of the 'command' events, in order
    written         \* the socket the payload is piped to: the bytes written to it, and whether it was ended

\* The variables of the direct calls of the two parsing methods.
pureVars == <<lineArg, reply>>

\* The variables of the way a write's payload takes to the socket and to the
\* 'send' and 'command' events.
sendVars == <<data, sent, sendBuffer, commands, written>>

vars == <<config, socket, isSecure, receiveBuffer, lineL, sock, ops, crashed, recvd, noCloseSince,
          pureVars, sendVars>>

----------------------------------------------------------------------------
\* Values

SP == 32

null == <<>>

NoErr == [t |-> "none", s |-> 0]
ErrNoSocket == [t |-> "Socket has closed", s |-> 0]
ErrClosed == [t |-> "Socket has closed unexpectedly", s |-> 0]
ErrHandler == [t |-> "handler", s |-> 0]
ErrTransport(s) == [t |-> "transport", s |-> s]

Cmd(i) == [t |-> "cmd", op |-> i]
Chan == [t |-> "chan", op |-> 0]
CloseOp(i) == [t |-> "closeop", op |-> i]
TlsReject(i) == [t |-> "tlsreject", op |-> i]

RemoveL(L, e) == SelectSeq(L, LAMBDA x : x # e)

Has(L, e) == \E k \in 1..Len(L) : L[k] = e

Count(L, e) == Cardinality({k \in 1..Len(L) : L[k] = e})

Min(a, b) == IF a < b THEN a ELSE b

----------------------------------------------------------------------------
\* Pure functions of the channel

parseReplyCode(line) == IF line # <<>> THEN SubSeq(line, 1, Min(3, Len(line))) ELSE null

isLastReply(line) ==
    IF line # <<>>
    THEN (IF Len(line) >= 4 /\ line[4] = SP THEN "true" ELSE "false")
    ELSE "null"

Truthy(v) == v = "true"

\* LineBuffer.feed: split buffer + chunk at the newlines (code 10): the
\* completed lines, and the rest it retains.
RECURSIVE Scan(_, _, _, _)
Scan(s, k, cur, acc) ==
    IF k > Len(s) THEN [lines |-> acc, rest |-> cur]
    ELSE IF s[k] = 10 THEN Scan(s, k + 1, <<>>, Append(acc, cur))
    ELSE Scan(s, k + 1, Append(cur, s[k]), acc)

feed(buffer, chunk) == Scan(buffer \o chunk, 1, <<>>, <<>>)

\* The server's reply to operation i: n lines "25i-" ... "25i ", each ended by a newline.
ReplyLine(i, last) == <<50, 53, 48 + i, IF last THEN SP ELSE 45>>

RECURSIVE ReplyBytes(_, _, _)
ReplyBytes(i, n, k) ==
    IF k > n THEN <<>> ELSE ReplyLine(i, k = n) \o <<10>> \o ReplyBytes(i, n, k + 1)

ReplyBlock(i, n) == ReplyBytes(i, n, 1)

----------------------------------------------------------------------------
\* Promises

\* time is the deadline the caller passed (0: none).
NewOp(kind, time) ==
    [kind |-> kind, time |-> time, inner |-> "pending", code |-> null, err |-> NoErr,
     outer |-> "pending", s |-> 0, sent |-> TRUE,
     handled |-> <<>>, failed |-> FALSE, fired |-> <<>>,
     armPos |-> 0, armBuf |-> <<>>, sawClose |-> FALSE, sawError |-> 0]

\* Mutant: a settlement of the operation reaches the caller even after the
\* deadline has passed.
SettleAfterDeadline(o, i, how, code, err) ==
    IF o[i].inner # "pending" THEN o
    ELSE [o EXCEPT ![i].inner = how, ![i].code = code, ![i].err = err, ![i].outer = how]

\* resolve/reject of the operation's promise; promiseWithTimeout passes the
\* first settlement on to the caller unless the deadline came first.
Settle(o, i, how, code, err) ==
    IF o[i].inner # "pending" THEN o
    ELSE [o EXCEPT ![i].inner = how, ![i].code = code, ![i].err = err,
                   ![i].outer = IF @ = "pending" THEN how ELSE @]

Fired(o, i, path) == [o EXCEPT ![i].fired = Append(@, path)]

----------------------------------------------------------------------------
\* The mutable state of the channel and of the objects it holds, as one
\* record, so that a listener is a function from state to state.

Heap ==
    [socket |-> socket, isSecure |-> isSecure, receiveBuffer |-> receiveBuffer,
     lineL |-> lineL, sock |-> sock, ops |-> ops, crashed |-> crashed, jobs |-> <<>>]

\* Mutant: onClose removes the command's listeners and leaves its promise
\* pending.
onCloseOnlyDetaches(h, i) ==
    LET h1 == IF h.socket # 0
              THEN [h EXCEPT !.sock[h.socket].errorL = RemoveL(@, Cmd(i))]
              ELSE h
    IN [h1 EXCEPT !.lineL = RemoveL(@, i),
                  !.ops = Fired(@, i, "close")]

\* _resolveCommand, line 243: the socket closed before the last reply.
onClose(h, i) ==
    LET h1 == IF h.socket # 0
              THEN [h EXCEPT !.sock[h.socket].errorL = RemoveL(@, Cmd(i))]
              ELSE h
    IN [h1 EXCEPT !.lineL = RemoveL(@, i),
                  !.ops = Settle(Fired(@, i, "close"), i, "rejected", null, ErrClosed)]

\* Mutant: onError leaves the command's close listener installed.
onErrorKeepsClose(h, i, error) ==
    IF h.socket = 0
    THEN [h EXCEPT !.crashed = TRUE, !.ops = Fired(@, i, "error")]
    ELSE [h EXCEPT !.lineL = RemoveL(@, i),
                   !.ops = Settle(Fired(@, i, "error"), i, "rejected", null, error)]

\* _resolveCommand, line 251: the socket reported an error.  With
\* this._socket null the first statement throws.
onError(h, i, error) ==
    IF h.socket = 0
    THEN [h EXCEPT !.crashed = TRUE, !.ops = Fired(@, i, "error")]
    ELSE [h EXCEPT !.sock[h.socket].closeL = RemoveL(@, Cmd(i)),
                   !.lineL = RemoveL(@, i),
                   !.ops = Settle(Fired(@, i, "error"), i, "rejected", null, error)]

\* _resolveCommand, line 257: a reply line.  The promise chain (handler, then
\* resolve, else reject) is queued as a job; the listeners are removed at once
\* when the line is the last one.  With this._socket null the removal throws.
onLine(h, i, line) ==
    LET isLast == isLastReply(line)
        code == parseReplyCode(line)
        h1 == [h EXCEPT !.jobs = Append(@, [op |-> i, line |-> line,
                                             isLast |-> isLast, code |-> code])]
    IN IF ~Truthy(isLast) THEN h1
       ELSE IF h1.socket = 0
       THEN [h1 EXCEPT !.crashed = TRUE, !.jobs = <<>>, !.ops = Fired(@, i, "line")]
       ELSE [h1 EXCEPT !.sock[h1.socket].closeL = RemoveL(@, Cmd(i)),
                       !.sock[h1.socket].errorL = RemoveL(@, Cmd(i)),
                       !.lineL = RemoveL(@, i),
                       !.ops = Fired(@, i, "line")]

\* _resolveCommand, lines 274-276: install the three listeners on the current
\* socket and on the receive buffer.  armPos and armBuf remember where the
\* inbound byte stream stood.
resolveCommand(h, i) ==
    [h EXCEPT !.sock[h.socket].closeL = Append(@, Cmd(i)),
              !.sock[h.socket].errorL = Append(@, Cmd(i)),
              !.lineL = Append(@, i),
              !.ops[i].s = h.socket,
              !.ops[i].armPos = Len(recvd),
              !.ops[i].armBuf = h.receiveBuffer]

\* The jobs queued by onLine run after the event's listeners have returned,
\* level by level: every handler call, then every resolve, then every reject
\* (.then(handler).then(resolve).catch(reject), lines 262-265).
\* f is the handler call of this event that throws (0: none does); the auto
\* QUIT of _onTimeout passes no handler.
RECURSIVE RunHandlers(_, _, _, _, _)
RunHandlers(o, jobs, k, failed, f) ==
    IF k > Len(jobs) THEN [ops |-> o, failed |-> failed]
    ELSE LET i == jobs[k].op
             hasHandler == o[i].kind # "quit"
             fails == hasHandler /\ k = f
             o1 == IF hasHandler
                   THEN [o EXCEPT ![i].handled = Append(@, jobs[k].line),
                                  ![i].failed = @ \/ fails]
                   ELSE o
         IN RunHandlers(o1, jobs, k + 1, IF fails THEN failed \cup {k} ELSE failed, f)

\* Mutant: resolve on every line, not only on the last one.
RECURSIVE RunResolvesAnyLine(_, _, _, _)
RunResolvesAnyLine(o, jobs, k, failed) ==
    IF k > Len(jobs) THEN o
    ELSE RunResolvesAnyLine(IF k \notin failed
                            THEN Settle(o, jobs[k].op, "resolved", jobs[k].code, NoErr)
                            ELSE o,
                            jobs, k + 1, failed)

RECURSIVE RunResolves(_, _, _, _)
RunResolves(o, jobs, k, failed) ==
    IF k > Len(jobs) THEN o
    ELSE RunResolves(IF k \notin failed /\ Truthy(jobs[k].isLast)
                     THEN Settle(o, jobs[k].op, "resolved", jobs[k].code, NoErr)
                     ELSE o,
                     jobs, k + 1, failed)

RECURSIVE RunRejects(_, _, _, _)
RunRejects(o, jobs, k, failed) ==
    IF k > Len(jobs) THEN o
    ELSE RunRejects(IF k \in failed
                    THEN Settle(o, jobs[k].op, "rejected", null, ErrHandler)
                    ELSE o,
                    jobs, k + 1, failed)

Microtasks(h, f) ==
    IF h.crashed THEN h
    ELSE LET r == RunHandlers(h.ops, h.jobs, 1, {}, f)
         IN [h EXCEPT !.ops = RunRejects(RunResolves(r.ops, h.jobs, 1, r.failed),
                                         h.jobs, 1, r.failed),
                      !.jobs = <<>>]

\* emit('line', line) calls the listeners installed when the emit began.
RECURSIVE EmitLine(_, _, _, _)
EmitLine(h, L, k, line) ==
    IF k > Len(L) \/ h.crashed THEN h
    ELSE EmitLine(onLine(h, L[k], line), L, k + 1, line)

RECURSIVE EmitLines(_, _, _)
EmitLines(h, lines, k) ==
    IF k > Len(lines) \/ h.crashed THEN h
    ELSE EmitLines(EmitLine(h, h.lineL, 1, lines[k]), lines, k + 1)

\* _onReceive, line 349.
onReceive(h, chunk) ==
    LET f == feed(h.receiveBuffer, chunk)
    IN EmitLines([h EXCEPT !.receiveBuffer = f.rest], f.lines, 1)

\* A socket event calls every listener wired for it: _onReceive once per wiring.
RECURSIVE onData(_, _, _)
onData(h, chunk, n) ==
    IF n = 0 \/ h.crashed THEN h ELSE onData(onReceive(h, chunk), chunk, n - 1)

\* The QUITs of _onTimeout that the event has rejected.  Nothing handles the
\* promise that this.write('QUIT\r\n') returns (line 387): its rejection is an
\* unhandled rejection.
UnhandledRejections(h) ==
    {q \in 1..Len(h.ops) : /\ h.ops[q].kind = "quit"
                           /\ h.ops[q].inner = "rejected"
                           /\ (q > Len(ops) \/ ops[q].inner = "pending")}

\* The event is over: the channel is as the listeners left it.  An unhandled
\* rejection is ignored or ends the process, as the runtime is set up.
Commit(h) ==
    /\ socket' = h.socket
    /\ isSecure' = h.isSecure
    /\ receiveBuffer' = h.receiveBuffer
    /\ lineL' = h.lineL
    /\ sock' = h.sock
    /\ ops' = h.ops
    /\ crashed' \in {h.crashed} \cup {TRUE : q \in UnhandledRejections(h)}

----------------------------------------------------------------------------
\* Sockets

NewSocket(enc, under, owner) ==
    [st |-> "connecting", enc |-> enc, under |-> under, owner |-> owner,
     closeL |-> <<>>, errorL |-> <<>>, wired |-> 0, wire |-> <<>>, greeted |-> 0]

\* socket.destroy(): no more I/O; the close event follows.
destroy(r) ==
    IF r.st \in {"connecting", "open"} THEN [r EXCEPT !.st = "closing", !.wire = <<>>] ELSE r

\* The five this._socket.on(...) calls of lines 147-152 and 219-224, after
\* removeAllListeners('error').
wireListeners(h) ==
    [h EXCEPT !.sock[h.socket].errorL = <<Chan>>,
              !.sock[h.socket].closeL = Append(@, Chan),
              !.sock[h.socket].wired = @ + 1]

RECURSIVE Root(_)
Root(s) == IF sock[s].under = 0 THEN s ELSE Root(sock[s].under)

\* The listeners of command i that an event can still reach.
Installed(i) ==
    {"close" : s \in {s \in 1..Len(sock) : Has(sock[s].closeL, Cmd(i)) /\ sock[s].st # "closed"}}
    \cup {"error" : s \in {s \in 1..Len(sock) : Has(sock[s].errorL, Cmd(i)) /\ sock[s].st # "closed"}}
    \cup {"line" : k \in {k \in 1..Len(lineL) : lineL[k] = i}}

Armed(i) == Installed(i) # {}

\* The commands armed and unsettled on the transport that socket s carries.
PendingOn(s) ==
    {i \in 1..Len(ops) : Armed(i) /\ ops[i].inner = "pending" /\ Root(ops[i].s) = Root(s)}

----------------------------------------------------------------------------
\* The operations of the channel

\* Mutant: connect opens a socket whether or not the channel holds one.
connectAlwaysOpens(h, i) ==
    IF Len(h.sock) >= MaxSockets
    THEN [h EXCEPT !.ops = Settle(@, i, "resolved", null, NoErr)]
    ELSE resolveCommand([h EXCEPT !.sock = Append(@, NewSocket(config.secure, 0, i)),
                                  !.socket = Len(h.sock) + 1], i)

\* _connectAsPromised, lines 137-160.
connectAsPromised(h, i) ==
    IF h.socket # 0
    THEN [h EXCEPT !.ops = Settle(@, i, "resolved", null, NoErr)]
    ELSE resolveCommand([h EXCEPT !.sock = Append(@, NewSocket(config.secure, 0, i)),
                                  !.socket = Len(h.sock) + 1], i)

\* Mutant: the connect listener leaves this._isSecure as it was.
connectCallbackKeepsFlag(h, s) ==
    IF h.socket = 0 THEN [h EXCEPT !.crashed = TRUE] ELSE wireListeners(h)

\* The connect listener of lines 145-156.
connectCallback(h, s) ==
    LET h1 == [h EXCEPT !.isSecure = h.sock[s].enc]
    IN IF h1.socket = 0 THEN [h1 EXCEPT !.crashed = TRUE] ELSE wireListeners(h1)

\* Mutant: close resolves as soon as it has destroyed the socket.
closeResolvesAtOnce(h, i) ==
    IF h.socket = 0
    THEN [h EXCEPT !.ops = Settle(@, i, "resolved", null, NoErr)]
    ELSE [h EXCEPT !.sock[h.socket] = destroy(@),
                   !.ops = Settle([@ EXCEPT ![i].s = h.socket], i, "resolved", null, NoErr),
                   !.socket = 0]

\* _closeAsPromised, lines 167-178; s remembers the socket it destroyed.
closeAsPromised(h, i) ==
    IF h.socket = 0
    THEN [h EXCEPT !.ops = Settle(@, i, "resolved", null, NoErr)]
    ELSE [h EXCEPT !.sock[h.socket] = destroy([@ EXCEPT !.closeL = Append(@, CloseOp(i))]),
                   !.ops[i].s = h.socket,
                   !.socket = 0]

\* Mutant: write without a socket rejects with the error of a premature close.
writeRejectsAsClosed(h, i) ==
    IF h.socket = 0
    THEN [h EXCEPT !.ops = Settle(@, i, "rejected", null, ErrClosed)]
    ELSE [resolveCommand(h, i) EXCEPT !.ops[i].sent = FALSE]

\* _writeAsPromised, lines 185-197; the piped data reaches the socket later.
writeAsPromised(h, i) ==
    IF h.socket = 0
    THEN [h EXCEPT !.ops = Settle(@, i, "rejected", null, ErrNoSocket)]
    ELSE [resolveCommand(h, i) EXCEPT !.ops[i].sent = FALSE]

\* Mutant: negotiateTLS marks the channel secure and counts the channel's
\* handlers as wired on the new socket before the handshake.
negotiateTLSWiresAtOnce(h, i) ==
    LET old == h.socket
        h1 == [h EXCEPT !.sock[old].closeL = <<>>,
                        !.sock[old].errorL = <<>>,
                        !.sock[old].wired = 0,
                        !.sock[old].st = "wrapped",
                        !.sock[old].wire = <<>>]
    IN [h1 EXCEPT !.sock = Append(@, [NewSocket(TRUE, old, i) EXCEPT !.errorL = <<TlsReject(i)>>,
                                                                    !.wired = 1]),
                  !.socket = Len(h.sock) + 1,
                  !.isSecure = TRUE]

\* Mutant: negotiateTLS starts the encrypted session with an empty receive
\* buffer.
negotiateTLSResetsBuffer(h, i) ==
    LET old == h.socket
        h1 == [h EXCEPT !.sock[old].closeL = <<>>,
                        !.sock[old].errorL = <<>>,
                        !.sock[old].wired = 0,
                        !.sock[old].st = "wrapped",
                        !.sock[old].wire = <<>>,
                        !.receiveBuffer = <<>>]
    IN [h1 EXCEPT !.sock = Append(@, [NewSocket(TRUE, old, i) EXCEPT !.errorL = <<TlsReject(i)>>]),
                  !.socket = Len(h.sock) + 1]

\* _negotiateTLSAsPromised, lines 204-231, up to the handshake.
negotiateTLSAsPromised(h, i) ==
    LET old == h.socket
        h1 == [h EXCEPT !.sock[old].closeL = <<>>,
                        !.sock[old].errorL = <<>>,
                        !.sock[old].wired = 0,
                        !.sock[old].st = "wrapped",
                        !.sock[old].wire = <<>>]
    IN [h1 EXCEPT !.sock = Append(@, [NewSocket(TRUE, old, i) EXCEPT !.errorL = <<TlsReject(i)>>]),
                  !.socket = Len(h.sock) + 1]

\* Mutant: the secureConnect listener wires the channel's handlers twice.
tlsCallbackWiresTwice(h, i) ==
    LET h1 == [h EXCEPT !.isSecure = TRUE]
    IN IF h1.socket = 0 THEN [h1 EXCEPT !.crashed = TRUE]
       ELSE [wireListeners(wireListeners(h1)) EXCEPT
                 !.sock[h1.socket].errorL = <<Chan, Chan>>,
                 !.ops = Settle(@, i, "resolved", null, NoErr)]

\* The secureConnect listener of lines 217-228.
tlsCallback(h, i) ==
    LET h1 == [h EXCEPT !.isSecure = TRUE]
    IN IF h1.socket = 0 THEN [h1 EXCEPT !.crashed = TRUE]
       ELSE [wireListeners(h1) EXCEPT !.ops = Settle(@, i, "resolved", null, NoErr)]

\* _onClose, lines 305-309.
chanOnClose(h) == [h EXCEPT !.socket = 0]

\* _onTimeout, lines 384-388: the new operation is the last of h.ops.
onTimeout(h) ==
    LET o == Append(h.ops, NewOp("quit", 0))
    IN writeAsPromised([h EXCEPT !.ops = o], Len(o))

RECURSIVE onTimeouts(_, _)
onTimeouts(h, n) == IF n = 0 THEN h ELSE onTimeouts(onTimeout(h), n - 1)

\* emit('close') on a socket: the listeners installed when the emit began.
RECURSIVE EmitClose(_, _, _)
EmitClose(h, L, k) ==
    IF k > Len(L) \/ h.crashed THEN h
    ELSE EmitClose(CASE L[k].t = "cmd" -> onClose(h, L[k].op)
                     [] L[k].t = "chan" -> chanOnClose(h)
                     [] L[k].t = "closeop" ->
                            [h EXCEPT !.ops = Settle(@, L[k].op, "resolved", null, NoErr)]
                     [] OTHER -> h,
                   L, k + 1)

\* emit('error', error) on socket s.
RECURSIVE EmitError(_, _, _, _)
EmitError(h, L, k, s) ==
    IF k > Len(L) \/ h.crashed THEN h
    ELSE EmitError(CASE L[k].t = "cmd" -> onError(h, L[k].op, ErrTransport(s))
                     [] L[k].t = "tlsreject" ->
                            [h EXCEPT !.ops = Settle(@, L[k].op, "rejected", null, ErrTransport(s))]
                     [] OTHER -> h,
                   L, k + 1, s)

Once(L) == SelectSeq(L, LAMBDA x : x.t \notin {"cmd", "closeop"})

----------------------------------------------------------------------------
\* Actions

\* No write has been given a payload.
NoData == [form |-> "none", payload |-> <<>>, chunks |-> <<>>, ended |-> FALSE, piped |-> 0]

NoneWritten == [bytes |-> <<>>, ended |-> FALSE]

\* No direct call of a parsing method has returned.
NoReply == [code |-> null, isLast |-> "unset", called |-> {}]

\* new SMTPChannel(config), with config.secure set or not.
Init ==
    /\ config \in {[secure |-> FALSE], [secure |-> TRUE]}
    /\ socket = 0
    /\ isSecure = FALSE
    /\ receiveBuffer = <<>>
    /\ lineL = <<>>
    /\ sock = <<>>
    /\ ops = <<>>
    /\ crashed = FALSE
    /\ recvd = <<>>
    /\ noCloseSince = FALSE
    /\ lineArg = <<>>
    /\ reply = NoReply
    /\ data = NoData
    /\ sent = <<>>
    /\ sendBuffer = <<>>
    /\ commands = <<>>
    /\ written = NoneWritten

\* The caller has no promise of its own still pending.
CallerIdle == \A i \in 1..Len(ops) : ops[i].kind = "quit" \/ ops[i].outer # "pending"

\* The deadlines a call can pass: none, or one that may pass before the
\* operation settles.
Times == {0, 1}

Timed == {j \in 1..Len(ops) : ops[j].time > 0}

CanCall(time) ==
    /\ ~crashed
    /\ CallerIdle
    /\ Len(ops) < MaxOps
    /\ time \in Times
    /\ time > 0 => Cardinality(Timed) < MaxTimeouts

\* A destroyed socket emits close at the end of the event-loop turn in which it
\* was destroyed: calls of the caller and the outcome of a connect attempt can
\* come before that, bytes from the server, a handshake, the server's end and
\* the idle timer cannot.
NoCloseDue == \A s \in 1..Len(sock) : sock[s].st # "closing"

WithOp(kind, time) == [Heap EXCEPT !.ops = Append(@, NewOp(kind, time))]

\* connect({handler, timeout})
Connect(time) ==
    /\ CanCall(time)
    /\ socket = 0 => Len(sock) < MaxSockets
    /\ Commit(connectAsPromised(WithOp("connect", time), Len(ops) + 1))
    /\ noCloseSince' = IF socket = 0 THEN TRUE ELSE noCloseSince
    /\ UNCHANGED <<config, pureVars, sendVars, recvd>>

\* close({timeout})
Close(time) ==
    /\ CanCall(time)
    /\ Commit(closeAsPromised(WithOp("close", time), Len(ops) + 1))
    /\ noCloseSince' = FALSE
    /\ UNCHANGED <<config, pureVars, sendVars, recvd>>

\* write(data, {handler, timeout})
Write(time) ==
    /\ CanCall(time)
    /\ Commit(writeAsPromised(WithOp("write", time), Len(ops) + 1))
    /\ UNCHANGED <<config, pureVars, sendVars, recvd, noCloseSince>>

\* negotiateTLS(config), called on a connected channel
NegotiateTLS(time) ==
    /\ CanCall(time)
    /\ socket # 0
    /\ sock[socket].st = "open"
    /\ Len(sock) < MaxSockets
    /\ Commit(negotiateTLSAsPromised(WithOp("tls", time), Len(ops) + 1))
    /\ UNCHANGED <<config, pureVars, sendVars, recvd, noCloseSince>>

\* The caller gave operation i a deadline, and it passes before the operation
\* settles (promiseWithTimeout).  The auto QUIT has none (line 387).
Deadline(i) ==
    /\ ~crashed
    /\ i \in 1..Len(ops)
    /\ ops[i].time > 0
    /\ ops[i].outer = "pending"
    /\ ops' = [ops EXCEPT ![i].outer = "timeout"]
    /\ UNCHANGED <<config, pureVars, sendVars, socket, isSecure, receiveBuffer, lineL, sock, crashed, recvd, noCloseSince>>

\* The piped command reaches its socket (lines 193-195); the server answers
\* it with a block of n lines.
Pipe(i, n) ==
    /\ ~crashed
    /\ i \in 1..Len(ops)
    /\ ~ops[i].sent
    /\ sock[ops[i].s].st # "connecting"
    /\ ops' = [ops EXCEPT ![i].sent = TRUE]
    /\ sock' = IF sock[ops[i].s].st = "open"
               THEN [sock EXCEPT ![ops[i].s].wire = @ \o ReplyBlock(i, n)]
               ELSE sock
    /\ UNCHANGED <<config, pureVars, sendVars, socket, isSecure, receiveBuffer, lineL, crashed, recvd, noCloseSince>>

\* Socket s connects; the server sends its greeting of n lines.
ConnectOk(s, n) ==
    /\ ~crashed
    /\ s \in 1..Len(sock)
    /\ sock[s].st = "connecting"
    /\ sock[s].under = 0
    /\ Commit(connectCallback([Heap EXCEPT !.sock[s].st = "open",
                                           !.sock[s].wire = ReplyBlock(sock[s].owner, n),
                                           !.sock[s].greeted = n], s))
    /\ UNCHANGED <<config, pureVars, sendVars, recvd, noCloseSince>>

\* The TLS handshake of socket s completes.
TlsOk(s) ==
    /\ ~crashed
    /\ s \in 1..Len(sock)
    /\ NoCloseDue
    /\ sock[s].st = "connecting"
    /\ sock[s].under # 0
    /\ Commit(tlsCallback([Heap EXCEPT !.sock[s].st = "open"], sock[s].owner))
    /\ UNCHANGED <<config, pureVars, sendVars, recvd, noCloseSince>>

\* A 'data' event carries everything on the wire, or its first Cut bytes.
ChunkSizes(w) == {Len(w)} \cup {k \in {Cut} : k < Len(w)}

\* Socket s delivers the next k bytes in a 'data' event; the f-th handler call
\* it leads to throws (0: none).
Receive(s) ==
    /\ ~crashed
    /\ s \in 1..Len(sock)
    /\ NoCloseDue
    /\ sock[s].st = "open"
    /\ sock[s].wired > 0
    /\ sock[s].wire # <<>>
    /\ \E k \in ChunkSizes(sock[s].wire) :
           LET chunk == SubSeq(sock[s].wire, 1, k)
               h0 == [Heap EXCEPT !.sock[s].wire = SubSeq(@, k + 1, Len(@))]
               h1 == onData(h0, chunk, sock[s].wired)
           IN \E f \in 0..Len(h1.jobs) :
                  /\ f # 0 => Cardinality({j \in 1..Len(ops) : ops[j].failed}) < MaxFailures
                  /\ Commit(Microtasks(h1, f))
                  /\ recvd' = recvd \o chunk
    /\ UNCHANGED <<config, pureVars, sendVars, noCloseSince>>

\* Socket s reports an error; it is destroyed and its close event follows.
SocketError(s) ==
    /\ ~crashed
    /\ s \in 1..Len(sock)
    /\ sock[s].st \in {"connecting", "open"}
    /\ LET L == sock[s].errorL
           seen == PendingOn(s)
           h0 == [Heap EXCEPT !.sock[s] = [destroy(@) EXCEPT !.errorL = Once(@)],
                              !.ops = [i \in 1..Len(ops) |->
                                          IF i \in seen THEN [ops[i] EXCEPT !.sawError = s]
                                          ELSE ops[i]]]
       IN Commit(IF L = <<>> THEN [h0 EXCEPT !.crashed = TRUE] ELSE EmitError(h0, L, 1, s))
    /\ UNCHANGED <<config, pureVars, sendVars, recvd, noCloseSince>>

\* The server ends the connection of socket s ('end'); its close event follows.
PeerClose(s) ==
    /\ ~crashed
    /\ s \in 1..Len(sock)
    /\ NoCloseDue
    /\ sock[s].st = "open"
    /\ sock[s].wire = <<>>
    /\ sock' = [sock EXCEPT ![s] = destroy(@)]
    /\ UNCHANGED <<config, pureVars, sendVars, socket, isSecure, receiveBuffer, lineL, ops, crashed, recvd, noCloseSince>>

\* The close event of socket s.
CloseEvent(s) ==
    /\ ~crashed
    /\ s \in 1..Len(sock)
    /\ sock[s].st = "closing"
    /\ LET L == sock[s].closeL
           seen == PendingOn(s)
           h0 == [Heap EXCEPT !.sock[s].st = "closed",
                              !.sock[s].closeL = Once(@),
                              !.ops = [i \in 1..Len(ops) |->
                                          IF i \in seen THEN [ops[i] EXCEPT !.sawClose = TRUE]
                                          ELSE ops[i]]]
       IN Commit(EmitClose(h0, L, 1))
    /\ noCloseSince' = FALSE
    /\ UNCHANGED <<config, pureVars, sendVars, recvd>>

\* The idle timeout of socket s fires.
IdleTimeout(s) ==
    /\ ~crashed
    /\ s \in 1..Len(sock)
    /\ NoCloseDue
    /\ sock[s].st = "open"
    /\ sock[s].wired > 0
    /\ Len(ops) + sock[s].wired <= MaxOps
    /\ Commit(onTimeouts(Heap, sock[s].wired))
    /\ UNCHANGED <<config, pureVars, sendVars, recvd, noCloseSince>>

Next ==
    \/ \E time \in Times : Connect(time)
    \/ \E time \in Times : Close(time)
    \/ \E time \in Times : Write(time)
    \/ \E time \in Times : NegotiateTLS(time)
    \/ \E i \in 1..MaxOps : Deadline(i)
    \/ \E i \in 1..MaxOps, n \in 1..MaxLines : Pipe(i, n)
    \/ \E s \in 1..MaxSockets, n \in 1..MaxLines : ConnectOk(s, n)
    \/ \E s \in 1..MaxSockets : TlsOk(s)
    \/ \E s \in 1..MaxSockets : Receive(s)
    \/ \E s \in 1..MaxSockets : SocketError(s)
    \/ \E s \in 1..MaxSockets : PeerClose(s)
    \/ \E s \in 1..MaxSockets : CloseEvent(s)
    \/ \E s \in 1..MaxSockets : IdleTimeout(s)

Spec == Init /\ [][Next]_vars

----------------------------------------------------------------------------
\* Direct calls of parseReplyCode and isLastReply on a new channel, with any
\* line of up to MaxLineLen characters out of a digit, a hyphen and a space.

Chars == {50, 45, SP}

Lines == UNION {[1..n -> Chars] : n \in 0..MaxLineLen}

InitLines ==
    /\ config \in {[secure |-> FALSE], [secure |-> TRUE]}
    /\ socket = 0
    /\ isSecure = FALSE
    /\ receiveBuffer = <<>>
    /\ lineL = <<>>
    /\ sock = <<>>
    /\ ops = <<>>
    /\ crashed = FALSE
    /\ recvd = <<>>
    /\ noCloseSince = FALSE
    /\ lineArg \in Lines
    /\ reply = NoReply
    /\ data = NoData
    /\ sent = <<>>
    /\ sendBuffer = <<>>
    /\ commands = <<>>
    /\ written = NoneWritten

ChannelVars == <<config, socket, isSecure, receiveBuffer, lineL, sock, ops, crashed, recvd, noCloseSince>>

\* channel.parseReplyCode(line)
ParseReplyCode ==
    /\ "parseReplyCode" \notin reply.called
    /\ reply' = [reply EXCEPT !.code = parseReplyCode(lineArg), !.called = @ \cup {"parseReplyCode"}]
    /\ UNCHANGED <<lineArg, sendVars, ChannelVars>>

\* channel.isLastReply(line)
IsLastReply ==
    /\ "isLastReply" \notin reply.called
    /\ reply' = [reply EXCEPT !.isLast = isLastReply(lineArg), !.called = @ \cup {"isLastReply"}]
    /\ UNCHANGED <<lineArg, sendVars, ChannelVars>>

NextLines == ParseReplyCode \/ IsLastReply

SpecLines == InitLines /\ [][NextLines]_vars

----------------------------------------------------------------------------
\* The way of a write's payload: a connected channel is given one payload of
\* up to MaxPayload bytes, the UTF-8 encoding of a text of the letter A, the
\* newline and the two-byte character e-acute; a stream source delivers it in
\* pieces of any size.

Replacement == 65533

Texts == UNION {[1..n -> {65, 10, 233}] : n \in 1..MaxPayload}

\* Buffer.from(text, 'utf8'), for code points below 65536.
RECURSIVE Encode(_)
Encode(t) ==
    IF t = <<>> THEN <<>>
    ELSE LET c == Head(t)
         IN (IF c < 128 THEN <<c>>
             ELSE IF c < 2048 THEN <<192 + (c \div 64), 128 + (c % 64)>>
             ELSE <<224 + (c \div 4096), 128 + ((c \div 64) % 64), 128 + (c % 64)>>)
            \o Encode(Tail(t))

\* buffer.toString('utf8'), for sequences of one and two bytes: a byte that
\* starts no complete sequence within the buffer becomes U+FFFD.
RECURSIVE Decode(_)
Decode(b) ==
    IF b = <<>> THEN <<>>
    ELSE IF b[1] < 128 THEN <<b[1]>> \o Decode(Tail(b))
    ELSE IF b[1] \in 194..223 /\ Len(b) >= 2 /\ b[2] \in 128..191
         THEN <<(b[1] - 192) * 64 + (b[2] - 128)>> \o Decode(Tail(Tail(b)))
    ELSE <<Replacement>> \o Decode(Tail(b))

\* The ways to cut a byte sequence into non-empty pieces.
RECURSIVE Chunkings(_)
Chunkings(b) ==
    IF b = <<>> THEN {<<>>}
    ELSE UNION {{<<SubSeq(b, 1, k)>> \o c : c \in Chunkings(SubSeq(b, k + 1, Len(b)))} :
                k \in 1..Len(b)}

RECURSIVE Concat(_)
Concat(ss) == IF ss = <<>> THEN <<>> ELSE Head(ss) \o Concat(Tail(ss))

\* The data argument of write and the stream _convertToStream makes of it: a
\* string or Buffer is pushed as one chunk, a stream delivers its own pieces.
Payloads ==
    LET Bytes == {Encode(t) : t \in {u \in Texts : Len(Encode(u)) <= MaxPayload}}
    IN {[form |-> "fixed", payload |-> b, chunks |-> <<b>>, ended |-> FALSE, piped |-> 0] :
            b \in Bytes}
       \cup
       UNION {{[form |-> "stream", payload |-> b, chunks |-> c, ended |-> FALSE, piped |-> 0] :
                   c \in Chunkings(b)} : b \in Bytes}

\* _onSend, lines 371-378: the 'send' event, then a 'command' event per line
\* the chunk completes in this._sendBuffer.
onSend(chunk) ==
    LET fed == feed(sendBuffer, chunk)
    IN /\ sent' = Append(sent, chunk)
       /\ sendBuffer' = fed.rest
       /\ commands' = commands \o fed.lines

\* What the end of the source does to a destination piped with option end.
pipeEnd(ended, end) == IF end THEN TRUE ELSE ended

\* write(data, {handler}) with a payload
SendWrite(d) ==
    /\ CanCall(0)
    /\ data = NoData
    /\ d \in Payloads
    /\ Commit(writeAsPromised(WithOp("write", 0), Len(ops) + 1))
    /\ data' = IF socket = 0 THEN data ELSE [d EXCEPT !.piped = socket]
    /\ UNCHANGED <<config, pureVars, sent, sendBuffer, commands, written, recvd, noCloseSince>>

\* The source emits its next chunk: the logger of _createOnSendStream hands
\* its text to _onSend (line 296), the socket is written the chunk (line 195).
Flow ==
    /\ ~crashed
    /\ data.chunks # <<>>
    /\ onSend(Decode(Head(data.chunks)))
    /\ written' = [written EXCEPT !.bytes = @ \o Head(data.chunks)]
    /\ data' = [data EXCEPT !.chunks = Tail(@)]
    /\ UNCHANGED <<config, pureVars, ChannelVars>>

\* The source ends: pipe ends the logger, and the socket only if it was piped
\* without {end: false} (lines 194-195).
SourceEnd ==
    /\ ~crashed
    /\ data.form # "none"
    /\ data.chunks = <<>>
    /\ ~data.ended
    /\ data' = [data EXCEPT !.ended = pipeEnd(@, TRUE)]
    /\ written' = [written EXCEPT !.ended = pipeEnd(@, FALSE)]
    /\ UNCHANGED <<config, pureVars, sent, sendBuffer, commands, ChannelVars>>

\* The server has the whole payload and answers write i with a block of n lines.
Answer(i, n) ==
    /\ ~crashed
    /\ i \in 1..Len(ops)
    /\ ~ops[i].sent
    /\ data.piped = ops[i].s
    /\ data.chunks = <<>>
    /\ sock[ops[i].s].st = "open"
    /\ ~written.ended
    /\ ops' = [ops EXCEPT ![i].sent = TRUE]
    /\ sock' = [sock EXCEPT ![ops[i].s].wire = @ \o ReplyBlock(i, n)]
    /\ UNCHANGED <<config, pureVars, sendVars, socket, isSecure, receiveBuffer, lineL, crashed, recvd, noCloseSince>>

NextSend ==
    \/ Connect(0)
    \/ \E s \in 1..MaxSockets, n \in 1..MaxLines : ConnectOk(s, n)
    \/ \E s \in 1..MaxSockets : Receive(s)
    \/ \E d \in Payloads : SendWrite(d)
    \/ Flow
    \/ SourceEnd
    \/ \E i \in 1..MaxOps, n \in 1..MaxLines : Answer(i, n)

SpecSend == Init /\ [][NextSend]_vars

----------------------------------------------------------------------------
\* What the claims speak of

OpIds == 1..Len(ops)

\* The inbound bytes since command i was armed, behind what the receive
\* buffer retained then, and the lines they hold.
StreamSince(i) == ops[i].armBuf \o SubSeq(recvd, ops[i].armPos + 1, Len(recvd))

LinesSince(i) == feed(<<>>, StreamSince(i)).lines

\* The index of the first terminal line of L (fourth character a space), 0 if none.
FirstTerminal(L) ==
    IF \E k \in 1..Len(L) : Len(L[k]) >= 4 /\ L[k][4] = 32
    THEN CHOOSE k \in 1..Len(L) :
             /\ Len(L[k]) >= 4 /\ L[k][4] = 32
             /\ \A j \in 1..(k - 1) : ~(Len(L[j]) >= 4 /\ L[j][4] = 32)
    ELSE 0

\* The reply block of command i: the lines since it was armed, up to and
\* including the first terminal one.
BlockOf(i) ==
    LET L == LinesSince(i)
        n == FirstTerminal(L)
    IN IF n = 0 THEN L ELSE SubSeq(L, 1, n)

BlockComplete(i) == FirstTerminal(LinesSince(i)) # 0

IsPrefix(a, b) == Len(a) <= Len(b) /\ a = SubSeq(b, 1, Len(a))

Listening(i) == \E k \in 1..Len(lineL) : lineL[k] = i

Answers(line, i) == Len(line) >= 3 /\ line[3] = 48 + i

C2_NoMisattribution ==
    \A i, j \in OpIds :
        (/\ i < j
         /\ ops[i].kind = "write" /\ ops[j].kind = "write"
         /\ ops[i].outer = "timeout"
         /\ ops[i].s # 0 /\ ops[j].s = ops[i].s) =>
            /\ \A k \in 1..Len(ops[j].handled) : ~Answers(ops[j].handled[k], i)
            /\ ops[j].inner = "resolved" => ~Answers(ops[j].code, i)

\* C3: at most one command is armed.
C3_AtMostOneArmed == Cardinality({i \in OpIds : Armed(i)}) <= 1

C5_SettledIsDetached ==
    ~crashed =>
    \A i \in OpIds : (ops[i].s # 0 /\ ops[i].inner # "pending") => ~Armed(i)

\* C6: a connect that opened a socket resolves with the code of the greeting
\* the server sent on that socket, and its handler has been called once when
\* that greeting is one line.
C6_ConnectResolvesWithGreeting ==
    \A i \in OpIds :
        (ops[i].kind = "connect" /\ ops[i].s # 0 /\ ops[i].outer = "resolved") =>
            /\ ops[i].code = SubSeq(ReplyLine(i, TRUE), 1, 3)
            /\ sock[ops[i].s].greeted = 1 => Len(ops[i].handled) = 1

\* The call that a step makes, if it makes one: the operation it appends.
Called(kind) == Len(ops') = Len(ops) + 1 /\ ops'[Len(ops')].kind = kind

\* C7: a connect called after a connect that opened a socket, with no close()
\* call and no close event in between, resolves at once and leaves the socket
\* reference, the sockets, their listeners and the line listeners as they were.
C7_SecondConnectIsNoOp ==
    [][(Called("connect") /\ noCloseSince) =>
          /\ ops'[Len(ops')].inner = "resolved"
          /\ ops'[Len(ops')].outer = "resolved"
          /\ ops'[Len(ops')].s = 0
          /\ socket' = socket
          /\ sock' = sock
          /\ lineL' = lineL]_vars

\* A second connect was called while the first one's socket was still held.
C7_Witness ==
    \E i, j \in OpIds :
        /\ i < j
        /\ ops[i].kind = "connect" /\ ops[i].s # 0
        /\ ops[j].kind = "connect" /\ ops[j].s = 0
        /\ ops[j].inner = "resolved"
        /\ socket = ops[i].s
        /\ noCloseSince

\* C8: while an upgraded socket is open, isSecure is true, the channel's
\* handlers are wired on it exactly once and not at all on the socket it
\* replaced, and a write armed on it is handed each line of its reply block
\* once, in order, and resolves with the code of the block's last line.
C8_UpgradeKeepsCorrelation ==
    ~crashed =>
    \A t \in 1..Len(sock) :
        (sock[t].under # 0 /\ sock[t].st = "open") =>
            /\ isSecure
            /\ socket = t
            /\ sock[t].wired = 1
            /\ Count(sock[t].closeL, Chan) = 1
            /\ Count(sock[t].errorL, Chan) = 1
            /\ sock[sock[t].under].wired = 0
            /\ ~Has(sock[sock[t].under].closeL, Chan)
            /\ ~Has(sock[sock[t].under].errorL, Chan)
            /\ \A i \in OpIds :
                   (ops[i].kind = "write" /\ ops[i].s = t) =>
                       /\ IsPrefix(ops[i].handled, BlockOf(i))
                       /\ Listening(i) => ops[i].handled = LinesSince(i)
                       /\ ops[i].inner = "resolved" =>
                              /\ ops[i].handled = BlockOf(i)
                              /\ ops[i].code = parseReplyCode(BlockOf(i)[Len(BlockOf(i))])

\* After an upgrade, a write has resolved on its own reply block of two lines.
C8_Witness ==
    \E i \in OpIds :
        /\ ops[i].kind = "write"
        /\ ops[i].s # 0
        /\ sock[ops[i].s].under # 0
        /\ sock[ops[i].s].st = "open"
        /\ isSecure
        /\ ops[i].inner = "resolved"
        /\ Len(ops[i].handled) >= 2
        /\ \A k \in 1..Len(ops[i].handled) : Answers(ops[i].handled[k], i)

\* C9: a command that was armed and unsettled when its transport emitted
\* close has been rejected with the closed-unexpectedly error and has none of
\* its listeners installed.
C9_CloseRejectsPending ==
    ~crashed =>
    \A i \in OpIds :
        ops[i].sawClose =>
            /\ ops[i].inner = "rejected"
            /\ ops[i].err = ErrClosed
            /\ ~Armed(i)

\* C10: a command that was armed and unsettled when its transport emitted an
\* error has been rejected with that error and has none of its listeners
\* installed.
C10_ErrorRejectsPending ==
    ~crashed =>
    \A i \in OpIds :
        ops[i].sawError # 0 =>
            /\ ops[i].inner = "rejected"
            /\ ops[i].err = ErrTransport(ops[i].sawError)
            /\ ~Armed(i)

\* C11: an operation whose handler has failed on a line of its reply is
\* rejected with the handler's failure; it is not resolved with a reply code.
C11_HandlerFailureRejects ==
    \A i \in OpIds :
        ops[i].failed => (ops[i].inner = "rejected" /\ ops[i].err = ErrHandler)

\* C12: a write called while the channel holds no socket is rejected at once
\* with the 'Socket has closed' error; it installs no listener, has nothing to
\* pipe, and leaves every socket and the socket reference as they were.
C12_WriteWithoutSocketRejects ==
    [][(Called("write") /\ socket = 0) =>
          /\ ops'[Len(ops')].inner = "rejected"
          /\ ops'[Len(ops')].outer = "rejected"
          /\ ops'[Len(ops')].err = ErrNoSocket
          /\ ops'[Len(ops')].s = 0
          /\ ops'[Len(ops')].sent
          /\ lineL' = lineL
          /\ sock' = sock
          /\ socket' = 0]_vars

\* A write was called after close() and before the socket's close event.
C12_Witness ==
    /\ ops # <<>>
    /\ ops[Len(ops)].kind = "write"
    /\ ops[Len(ops)].err = ErrNoSocket
    /\ socket = 0
    /\ \E s \in 1..Len(sock) : sock[s].st = "closing"
    /\ \E j \in OpIds : ops[j].kind = "close" /\ ops[j].inner = "pending"

\* C13: a close called while the channel holds a socket destroys that socket,
\* drops the reference and stays pending; it settles only in the step that
\* delivers the close event of the socket it destroyed, and then it resolves.
\* A close called while the channel holds no socket resolves in the call and
\* touches no socket and no listener.
C13_CloseResolvesOnCloseEvent ==
    [][/\ (Called("close") /\ socket # 0) =>
              /\ sock'[socket].st \in {"closing", "closed"}
              /\ socket' = 0
              /\ ops'[Len(ops')].inner = "pending"
              /\ ops'[Len(ops')].s = socket
       /\ (Called("close") /\ socket = 0) =>
              /\ ops'[Len(ops')].inner = "resolved"
              /\ ops'[Len(ops')].s = 0
              /\ sock' = sock
              /\ lineL' = lineL
              /\ socket' = 0
       /\ \A i \in OpIds :
              (ops[i].kind = "close" /\ ops[i].inner = "pending" /\ ops'[i].inner # "pending") =>
                  /\ ops'[i].inner = "resolved"
                  /\ sock[ops[i].s].st = "closing"
                  /\ sock'[ops[i].s].st = "closed"]_vars

\* A close that destroyed an open socket has resolved, the socket's close event delivered.
C13_Witness ==
    \E i \in OpIds :
        /\ ops[i].kind = "close"
        /\ ops[i].s # 0
        /\ ops[i].outer = "resolved"
        /\ sock[ops[i].s].st = "closed"
        /\ sock[ops[i].s].wired = 1

SettledByOther(i) ==
    /\ ops[i].kind \in {"connect", "write"}
    /\ ops'[i].inner # ops[i].inner
    /\ ops'[i].fired = ops[i].fired
    /\ ops'[i].handled = ops[i].handled

\* C15: a step in which the idle timeout fires issues exactly one QUIT, as a
\* write nobody awaits, and changes no operation of the caller; a step in
\* which a QUIT is rejected does not end the process and settles no operation
\* of the caller other than through that operation's own listeners.
C15_IdleTimeoutIssuesOneQuit ==
    [][/\ (Len(ops') > Len(ops) /\ ops'[Len(ops')].kind = "quit") =>
              /\ Len(ops') = Len(ops) + 1
              /\ \A j \in OpIds : ops'[j] = ops[j]
              /\ ops'[Len(ops')].outer = ops'[Len(ops')].inner
              /\ socket # 0 => (ops'[Len(ops')].inner = "pending" /\ ~ops'[Len(ops')].sent)
              /\ ~crashed'
       /\ (\E q \in OpIds : /\ ops[q].kind = "quit"
                            /\ ops[q].inner = "pending"
                            /\ ops'[q].inner = "rejected") =>
              /\ ~crashed'
              /\ \A j \in OpIds : ~SettledByOther(j)]_vars

C17_ParseReplyCode ==
    "parseReplyCode" \in reply.called =>
        /\ Len(lineArg) >= 3 => reply.code = SubSeq(lineArg, 1, 3)
        /\ Len(lineArg) < 3 => reply.code = null

\* C18: isLastReply returns true for a line of four or more characters whose
\* fourth character is a space, false for every other line of four or more
\* characters, and false for every line of fewer than four, the empty line
\* included.
C18_IsLastReply ==
    "isLastReply" \in reply.called =>
        /\ Len(lineArg) >= 4 =>
               reply.isLast = (IF lineArg[4] = SP THEN "true" ELSE "false")
        /\ Len(lineArg) < 4 => reply.isLast = "false"

\* The outcome the inbound bytes since command i was armed determine, given
\* whether a handler call failed: none before the terminal line has come,
\* then rejected if a call failed and resolved otherwise.
OutcomeOf(i) ==
    IF ~BlockComplete(i) THEN "pending"
    ELSE IF ops[i].failed THEN "rejected" ELSE "resolved"

\* C19: the lines handed to the handler of a connect or write are the lines of
\* the concatenated inbound bytes since it was armed, in that order, each once;
\* and once the terminal line has been handled, the outcome and the resolved
\* code are those the bytes determine, however the socket cut them into chunks.
C19_ChunkingIndependent ==
    ~crashed =>
    \A i \in OpIds :
        (ops[i].kind \in {"connect", "write"} /\ ops[i].s # 0) =>
            /\ IsPrefix(ops[i].handled, LinesSince(i))
            /\ Listening(i) => ops[i].handled = LinesSince(i)
            /\ ops[i].inner = "resolved" =>
                   /\ BlockComplete(i)
                   /\ ops[i].code = parseReplyCode(BlockOf(i)[Len(BlockOf(i))])
            /\ ops[i].fired = <<"line">> => ops[i].inner = OutcomeOf(i)

\* C20: for a write's payload, fixed or streamed in pieces of any size, the
\* bytes of the 'send' events and the bytes written to the socket are both the
\* beginning of the payload, in its order, and both all of it once the source
\* is exhausted; the end of the payload leaves the socket open and not ended.
C20_SendPathsAgree ==
    data.form # "none" =>
        /\ IsPrefix(written.bytes, data.payload)
        /\ IsPrefix(Encode(Concat(sent)), data.payload)
        /\ data.chunks = <<>> => /\ written.bytes = data.payload
                                /\ Encode(Concat(sent)) = data.payload
        /\ ~written.ended
        /\ sock[data.piped].st = "open"

\* Socket s is the encrypted socket of an upgrade and reports an error in this
\* step, before its handshake completed (no call is made in the step: the
\* socket is destroyed by its own error).
HandshakeFails(s) ==
    /\ s \in 1..Len(sock)
    /\ sock[s].under # 0
    /\ sock[s].st = "connecting"
    /\ sock'[s].st = "closing"
    /\ Len(ops') = Len(ops)

\* C21: when the handshake of an upgrade reports an error, the upgrade rejects
\* with that error, isSecure stays what it was for the socket underneath and
\* none of the channel's handlers is wired to the new socket, then or later.
C21_HandshakeErrorRejects ==
    [][/\ \A s \in 1..MaxSockets :
              HandshakeFails(s) =>
                  /\ ops'[sock[s].owner].inner = "rejected"
                  /\ ops'[sock[s].owner].err = ErrTransport(s)
                  /\ isSecure' = sock[sock[s].under].enc
                  /\ sock'[s].wired = 0
                  /\ ~Has(sock'[s].closeL, Chan)
                  /\ ~Has(sock'[s].errorL, Chan)
       /\ \A i \in 1..Len(ops') :
              (ops'[i].kind = "tls" /\ ops'[i].inner = "rejected") =>
                  /\ ops'[i].err.s \in 1..Len(sock')
                  /\ sock'[ops'[i].err.s].wired = 0
                  /\ sock'[ops'[i].err.s].st \in {"closing", "closed"}]_vars

\* An upgrade of a plain connection was rejected by the error of its handshake;
\* the channel still holds the encrypted socket and is not secure.
C21_Witness ==
    \E i \in 1..Len(ops) :
        /\ ops[i].kind = "tls"
        /\ ops[i].inner = "rejected"
        /\ ops[i].outer = "rejected"
        /\ socket # 0
        /\ sock[socket].owner = i
        /\ ~isSecure

\* C22: when a socket emits an error while a command is armed and unsettled on
\* it, the command is settled by the channel's handling of the error, and the
\* handling neither clears this._socket nor destroys a socket: the channel
\* holds the same socket after the event, and no other socket changed state.
C22_ErrorKeepsTransport ==
    [][\A i \in 1..Len(ops) :
           (ops[i].sawError = 0 /\ ops'[i].sawError # 0 /\ ~crashed') =>
               /\ ops'[i].inner # "pending"
               /\ socket' = socket
               /\ \A t \in 1..Len(sock) :
                      t # ops'[i].sawError => sock'[t].st = sock[t].st]_vars

\* The channel configured without an idle timeout and called without
\* deadlines, so that nothing but the transport's events can settle a promise.
\* The runtime does its part: a destroyed socket emits its close event.
NextLive ==
    \/ Connect(0)
    \/ Close(0)
    \/ Write(0)
    \/ NegotiateTLS(0)
    \/ \E i \in 1..MaxOps, n \in 1..MaxLines : Pipe(i, n)
    \/ \E s \in 1..MaxSockets, n \in 1..MaxLines : ConnectOk(s, n)
    \/ \E s \in 1..MaxSockets : TlsOk(s)
    \/ \E s \in 1..MaxSockets : Receive(s)
    \/ \E s \in 1..MaxSockets : SocketError(s)
    \/ \E s \in 1..MaxSockets : PeerClose(s)
    \/ \E s \in 1..MaxSockets : CloseEvent(s)

FairSpec ==
    Init /\ [][NextLive]_vars /\ \A s \in 1..MaxSockets : WF_vars(CloseEvent(s))

\* Operation i is a connect or write that has armed a command.
ArmedCall(i) ==
    /\ i \in 1..Len(ops)
    /\ ops[i].kind \in {"connect", "write"}
    /\ ops[i].s # 0

CallSettled(i) == i \in 1..Len(ops) /\ ops[i].outer # "pending"

\* The transport has delivered, since command i was armed, the terminal line
\* of its reply, a close event or an error event.
Delivered(i) == ops[i].sawClose \/ ops[i].sawError # 0 \/ BlockComplete(i)

\* Every connect or write whose transport has delivered such an event is
\* settled, or the process has stopped.
AllDeliveredSettled ==
    \A i \in 1..Len(ops) : (ArmedCall(i) /\ Delivered(i)) => (crashed \/ CallSettled(i))

\* C23: the promise of every connect or write that armed a command is
\* eventually settled once its transport has delivered a terminal reply line,
\* a close event or an error event for it, unless the process has stopped:
\* whenever such a promise is pending, a state follows in which none is.
C23_ArmedCallSettles == (~AllDeliveredSettled) ~> AllDeliveredSettled

\* A connect or write was still pending after an error event of its transport
\* and was settled by the close event that followed.
C23_Witness ==
    \E i \in 1..Len(ops) :
        /\ ArmedCall(i)
        /\ ops[i].sawError # 0
        /\ ops[i].sawClose
        /\ ops[i].outer = "rejected"
        /\ ops[i].err = ErrClosed

\* The state of the connection lifecycle the channel is in: it holds no socket
\* (and a socket destroyed by close() may still owe its close event), or its
\* socket is connecting, open, in the handshake of an upgrade, or destroyed.
\* Held is the state of a channel whose socket has emitted its close event and
\* which still holds it.
Lifecycle ==
    IF socket = 0
    THEN IF \E s \in 1..Len(sock) : sock[s].st = "closing" THEN "Closing" ELSE "Disconnected"
    ELSE CASE sock[socket].st = "connecting" /\ sock[socket].under = 0 -> "Connecting"
           [] sock[socket].st = "connecting" /\ sock[socket].under # 0 -> "Upgrading"
           [] sock[socket].st = "open" -> "Connected"
           [] sock[socket].st = "closing" -> "Closing"
           [] OTHER -> "Held"

\* Disconnected -> Connecting -> Connected -> (Upgrading -> Connected)* ->
\* Closing -> Disconnected
Transitions ==
    {<<"Disconnected", "Connecting">>, <<"Connecting", "Connected">>,
     <<"Connected", "Upgrading">>, <<"Upgrading", "Connected">>,
     <<"Connected", "Closing">>, <<"Closing", "Disconnected">>}

\* C24: every step of the channel that changes the state of the connection
\* lifecycle takes one of the transitions Disconnected -> Connecting ->
\* Connected -> (Upgrading -> Connected)* -> Closing -> Disconnected.
C24_LifecycleTransitions ==
    [][Lifecycle' # Lifecycle => <<Lifecycle, Lifecycle'>> \in Transitions]_vars

\* The payload is made of complete lines.
CompleteLines == data.payload # <<>> /\ data.payload[Len(data.payload)] = 10

\* The lines of the payload's text.
PayloadLines == feed(<<>>, Decode(data.payload)).lines

NextUpgrade ==
    \/ \E time \in Times : Connect(time)
    \/ \E i \in 1..MaxOps : Deadline(i)
    \/ \E s \in 1..MaxSockets, n \in 1..MaxLines : ConnectOk(s, n)
    \/ \E s \in 1..MaxSockets : Receive(s)
    \/ \E d \in {p \in Payloads : p.form = "fixed"} : SendWrite(d)
    \/ Flow
    \/ SourceEnd
    \/ \E i \in 1..MaxOps, n \in 1..MaxLines : Answer(i, n)
    \/ NegotiateTLS(0)
    \/ \E s \in 1..MaxSockets : TlsOk(s)

SpecUpgrade == Init /\ [][NextUpgrade]_vars

\* The step begins an upgrade (negotiateTLS is called) or completes one (the
\* handshake ends and the callback of lines 217-228 runs).
UpgradeStep ==
    \/ Lifecycle = "Connected" /\ Lifecycle' = "Upgrading"
    \/ Lifecycle = "Upgrading" /\ Lifecycle' = "Connected"

\* C26: an upgrade leaves the partial inbound line of the receive buffer, the
\* partial outbound line of the send buffer and the listeners of the receive
\* buffer as they were, when it begins, while the handshake lasts and when it
\* completes.
C26_UpgradeKeepsBuffers ==
    [][/\ UpgradeStep =>
              /\ receiveBuffer' = receiveBuffer
              /\ sendBuffer' = sendBuffer
              /\ lineL' = lineL
       /\ Lifecycle = "Upgrading" => receiveBuffer' = receiveBuffer]_vars

\* An upgrade has completed while both buffers held a partial line: the write
\* before it had sent a payload without a newline and was rejected by its
\* handler on the first line of its reply, and the next line had arrived in
\* part.
C26_Witness ==
    /\ isSecure
    /\ receiveBuffer # <<>>
    /\ sendBuffer # <<>>
    /\ \E i, j \in 1..Len(ops) :
           /\ i < j
           /\ ops[i].kind = "write"
           /\ ops[i].failed
           /\ ops[i].handled = <<ReplyLine(i, FALSE)>>
           /\ ops[j].kind = "tls"
           /\ ops[j].outer = "resolved"

\* The lines the receive buffer completes in this step.
NewLines == feed(receiveBuffer, SubSeq(recvd', Len(recvd) + 1, Len(recvd'))).lines

\* The command of a write has been armed when its bytes are handed to the
\* socket, the greeting capture of a connect when its socket connects.
ArmedFirst ==
    /\ \A i \in 1..Len(ops) : (~ops[i].sent /\ ops'[i].sent) => ops[i].s # 0
    /\ \A s \in 1..Len(sock) :
           (sock[s].st = "connecting" /\ sock[s].under = 0 /\ sock'[s].st = "open") =>
               ops[sock[s].owner].s = s

\* C27: a write is armed before its first byte is handed to the socket and a
\* connect before its socket connects, and every line of the reply to a
\* command, or of the greeting, arrives while that command listens for lines.
C27_ArmedBeforeReply ==
    [][/\ ArmedFirst
       /\ recvd' # recvd =>
              \A k \in 1..Len(NewLines) : \A i \in 1..Len(ops) :
                  Answers(NewLines[k], i) => Listening(i)]_vars

\* Connect i was rejected by an error its socket reported before it connected,
\* and the socket has emitted its close event.
FailedAttempt(i) ==
    /\ ops[i].kind = "connect"
    /\ ops[i].s # 0
    /\ ops[i].inner = "rejected"
    /\ ops[i].err = ErrTransport(ops[i].s)
    /\ sock[ops[i].s].greeted = 0
    /\ sock[ops[i].s].st = "closed"

\* C28: after a connect was rejected by an error of its socket before the
\* connection was established, and the socket has closed, the channel does not
\* hold that socket; a connect called next has opened a socket of its own and
\* a close called next has resolved.
C28_FailedConnectDisconnects ==
    ~crashed =>
    \A i \in OpIds :
        FailedAttempt(i) =>
            /\ socket # ops[i].s
            /\ (i < Len(ops) /\ ops[i + 1].kind = "connect") => ops[i + 1].s # 0
            /\ (i < Len(ops) /\ ops[i + 1].kind = "close") => ops[i + 1].inner = "resolved"

\* An event of socket s is delivered in this step.
EventOf(s) ==
    \/ \E n \in 1..MaxLines : ConnectOk(s, n)
    \/ TlsOk(s)
    \/ Receive(s)
    \/ SocketError(s)
    \/ PeerClose(s)
    \/ CloseEvent(s)
    \/ IdleTimeout(s)

\* C29: an event of a socket the channel no longer holds leaves the channel's
\* socket reference as it is; in particular the late close event of a socket
\* given up by close() does not clear the reference to the socket of a later
\* connect.
C29_StaleEventKeepsSocket ==
    [][\A s \in 1..Len(sock) : (socket # s /\ EventOf(s)) => socket' = socket]_vars

\* The step is a connect() that opens a socket and the call before it was a
\* close() that gave up a socket.
ReconnectStep ==
    /\ Called("connect")
    /\ ops'[Len(ops')].s # 0
    /\ Len(ops) >= 1
    /\ ops[Len(ops)].kind = "close"
    /\ ops[Len(ops)].s # 0

\* C30: when a connect follows a close, the new session starts with an empty
\* splitter, so that the lines split from the new socket's chunks hold bytes
\* of the new socket only.
C30_NewSessionStartsClean ==
    [][ReconnectStep => receiveBuffer' = <<>>]_vars

\* The channel holds a socket whose greeting has arrived whole: the connect
\* that opened the socket has seen the terminal line of its reply block.
GreetingCaptured ==
    /\ socket # 0
    /\ \E j \in OpIds :
           /\ ops[j].kind = "connect"
           /\ ops[j].s = Root(socket)
           /\ BlockComplete(j)

\* The promise of connect call i resolves in this step.
ConnectResolves(i) ==
    /\ i \in 1..Len(ops')
    /\ ops'[i].kind = "connect"
    /\ ops'[i].outer = "resolved"
    /\ (i <= Len(ops) => ops[i].outer = "pending")

\* C31: in the state in which a connect call resolves the channel holds an
\* open socket and the greeting of that socket has arrived whole, also when
\* the call was made while an earlier connect was still in progress.
C31_ResolvedConnectIsConnected ==
    [][\A i \in 1..MaxOps :
          ConnectResolves(i) => (Lifecycle' = "Connected" /\ GreetingCaptured')]_vars

\* C32: while the channel holds no socket, isSecure() returns false; the flag
\* of a closed encrypted session does not outlive the session.
C32_NoSocketNotSecure == socket = 0 => ~isSecure

====
